---- MODULE Spec2Model ----
(***************************************************************************)
(* Model of the trading dashboard: the alert path of AlertSystem.tsx       *)
(* (realtime INSERT notifications on trading_signals, showAlert, the       *)
(* alert_sent update), the signal generator of lib/openai.ts               *)
(* (generateSignal / parseSignal), the structure extraction of             *)
(* ScreenCapture.tsx (extractPrice, extractStructuresFromAnalysis), its    *)
(* capture cycles (captureFrame, analyzeCapture), its capture session      *)
(* (startCapture, stopCapture, the auto-capture interval), the signal list *)
(* of TrainingUpload.tsx (TradingSignals) and analyzeChart / parseAnalysis.*)
(*                                                                         *)
(* Prices are integers, confidences are hundredths (0.75 is 75).           *)
(***************************************************************************)
EXTENDS Integers, Sequences, FiniteSets, TLC

VARIABLES
    trading_signals,        \* table trading_signals: id -> row, or NoRow
    realtime,               \* INSERT payloads (payload.new) published on channel 'signal_alerts'
    calls,                  \* one record per run of the subscription handler
    toasts,                 \* AlertSystem state `toasts`
    soundEnabled,           \* AlertSystem state `soundEnabled`
    notificationsEnabled,   \* AlertSystem state `notificationsEnabled`
    permission,             \* Notification.permission
    bundle,                 \* the four ChartAnalysis arguments of generateSignal
    settings,               \* user_settings: min_confidence_threshold, risk_reward_ratio
    pc,                     \* position of the generateSignal call
    response,               \* the completion response: "none", "ok" or "error"
    result,                 \* the TradingSignal generateSignal returned, or NoResult
    previous,               \* the outcomes of the earlier generateSignal calls
    analysisText,           \* argument of extractStructuresFromAnalysis: a sequence of lines
    extracted,              \* the return value of extractStructuresFromAnalysis, once returned
    openai_api_key,         \* user_settings.openai_api_key is set
    chart_captures,         \* table chart_captures: id -> analysis_status, or NoCapture
    market_structures,      \* table market_structures: a set of rows
    cycles,                 \* one record per captureFrame invocation
    isAnalyzing,            \* ScreenCapture state `isAnalyzing`
    stream,                 \* ScreenCapture state `stream`: a MediaStream (its number), or 0 for null
    listeners,              \* the live video tracks, each with its 'ended' listener
    isCapturing,            \* ScreenCapture state `isCapturing`
    autoCapture,            \* ScreenCapture state `settings.autoCapture`
    intervalRef,            \* intervalRef.current: a timer id, or 0 for null
    timers,                 \* the intervals set by window.setInterval and not cleared
    pendingStarts,          \* the startCapture calls awaiting getDisplayMedia
    started,                \* the number of startCapture calls so far
    batched,                \* the React build batches the state updates made after an await
    ticks,                  \* one record per run of an interval callback
    filter,                 \* TradingSignals state `filter`
    signals,                \* TradingSignals state `signals`: the ids of the displayed rows
    loads,                  \* the loadSignals requests in flight: the filter each one queries
    issued,                 \* the number of loadSignals calls so far
    loadError,              \* some loadSignals request was answered with an error
    analysis                \* the ChartAnalysis analyzeChart returned, or NoAnalysis

alertVars == <<trading_signals, realtime, calls, toasts, soundEnabled,
               notificationsEnabled, permission>>
engineVars == <<bundle, settings, pc, response, result, previous>>
extractVars == <<analysisText, extracted>>
captureVars == <<openai_api_key, chart_captures, market_structures, cycles, isAnalyzing>>
sessionVars == <<stream, listeners, isCapturing, autoCapture, intervalRef, timers,
                 pendingStarts, started, batched, ticks>>
listVars == <<filter, signals, loads, issued, loadError>>
visionVars == <<analysis>>
vars == <<trading_signals, realtime, calls, toasts, soundEnabled,
          notificationsEnabled, permission, bundle, settings, pc, response, result,
          previous, analysisText, extracted, openai_api_key, chart_captures,
          market_structures, cycles, isAnalyzing, stream, listeners, isCapturing,
          autoCapture, intervalRef, timers, pendingStarts, started, batched, ticks,
          filter, signals, loads, issued, loadError, analysis>>

(***************************************************************************)
(* Bounds                                                                  *)
(***************************************************************************)
MaxSignals == 2        \* signal identifiers 1..MaxSignals
MaxCalls == 2          \* runs of the subscription handler
MaxEvaluations == 2    \* calls of generateSignal on one bundle
MaxLines == 2          \* lines of an analysis text
MaxCaptures == 2       \* captureFrame invocations

SignalIds == 1..MaxSignals
CaptureIds == 1..MaxCaptures
NoCapture == "none"

Null == "null"
NoRow == [id |-> 0]
NoResult == [signalType |-> "none"]

(***************************************************************************)
(* Table trading_signals                                                   *)
(***************************************************************************)
\* The columns an inserter supplies (NOT NULL, no default).
SignalValues ==
    { [signal_type |-> "buy", entry_price |-> 102, stop_loss |-> 100,
       take_profit |-> 112, risk_reward_ratio |-> 5, confidence_score |-> 75],
      [signal_type |-> "sell", entry_price |-> 98, stop_loss |-> 100,
       take_profit |-> 88, risk_reward_ratio |-> 5, confidence_score |-> 80] }

\* The values inserted under an identifier: buys under odd identifiers, sells
\* under even ones.
ValuesFor(id) == {v \in SignalValues : (v.signal_type = "buy") <=> (id % 2 = 1)}

\* The row an INSERT creates: status DEFAULT 'pending', alert_sent DEFAULT false.
NewRow(id, v) ==
    [id |-> id, signal_type |-> v.signal_type, entry_price |-> v.entry_price,
     stop_loss |-> v.stop_loss, take_profit |-> v.take_profit,
     risk_reward_ratio |-> v.risk_reward_ratio,
     confidence_score |-> v.confidence_score,
     status |-> "pending", alert_sent |-> FALSE]

\* An update object that also moves the signal on to 'triggered'.
AlertSentAndStatusUpdate == [alert_sent |-> TRUE, status |-> "triggered"]

\* The object passed to .update() by showAlert.
AlertSentUpdate == [alert_sent |-> TRUE]

\* An update that flips the patched boolean columns instead of assigning them.
TogglePatch(row, patch) ==
    [c \in DOMAIN row |-> IF c \in DOMAIN patch THEN ~row[c] ELSE row[c]]

\* UPDATE trading_signals SET <patch> WHERE id = <id>.
ApplyPatch(row, patch) ==
    [c \in DOMAIN row |-> IF c \in DOMAIN patch THEN patch[c] ELSE row[c]]

Exists(id) == trading_signals[id] # NoRow

(***************************************************************************)
(* AlertSystem                                                             *)
(***************************************************************************)
\* The Toast object built at the top of showAlert.
MakeToast(signal) ==
    [id |-> signal.id, type |-> signal.signal_type,
     price |-> signal.entry_price, confidence |-> signal.confidence_score]

\* A row is inserted by the signal producer; the channel publishes the
\* INSERT with payload.new = the inserted row.
InsertSignal(id, v) ==
    /\ ~Exists(id)
    /\ trading_signals' = [trading_signals EXCEPT ![id] = NewRow(id, v)]
    /\ realtime' = realtime \cup {NewRow(id, v)}
    /\ UNCHANGED <<calls, toasts, soundEnabled, notificationsEnabled, permission>>
    /\ UNCHANGED <<engineVars, extractVars, captureVars, sessionVars, listVars,
                   visionVars>>

\* requestNotificationPermission: the user answers the permission prompt.
RequestNotificationPermission(answer) ==
    /\ permission = "default"
    /\ permission' = answer
    /\ UNCHANGED <<trading_signals, realtime, calls, toasts, soundEnabled,
                   notificationsEnabled>>
    /\ UNCHANGED <<engineVars, extractVars, captureVars, sessionVars, listVars,
                   visionVars>>

\* The values of notificationsEnabled and soundEnabled that the subscribed
\* handler reads: the effect runs on mount (deps [user]), so its showAlert
\* closes over the state of the first render.
HandlerNotificationsEnabled == TRUE
HandlerSoundEnabled == TRUE

\* showAlert: the toast (if enabled) with its removal timer, the sound (if
\* enabled), the system notification (if permitted), then the update request
\* alert_sent = true is issued without awaiting it.
ShowAlert(signal) ==
    /\ toasts' = IF HandlerNotificationsEnabled
                 THEN Append(toasts, MakeToast(signal))
                 ELSE toasts
    /\ calls' = Append(calls,
          [id |-> signal.id, shown |-> TRUE,
           toast |-> HandlerNotificationsEnabled,
           sound |-> HandlerSoundEnabled,
           notification |-> (permission = "granted"),
           update |-> "pending", transition |-> FALSE])

\* The subscription handler: one delivery of an INSERT payload. The channel
\* may deliver a published payload any number of times.
OnInsert(signal) ==
    /\ Len(calls) < MaxCalls
    /\ signal \in realtime
    /\ IF ~signal.alert_sent
       THEN ShowAlert(signal)
       ELSE /\ toasts' = toasts
            /\ calls' = Append(calls,
                  [id |-> signal.id, shown |-> FALSE, toast |-> FALSE,
                   sound |-> FALSE, notification |-> FALSE,
                   update |-> "none", transition |-> FALSE])
    /\ UNCHANGED <<trading_signals, realtime, soundEnabled, notificationsEnabled,
                   permission>>
    /\ UNCHANGED <<engineVars, extractVars, captureVars, sessionVars, listVars,
                   visionVars>>

\* The update request of call i reaches the database.
UpdateApplied(i) ==
    /\ i \in 1..Len(calls)
    /\ calls[i].update = "pending"
    /\ LET id == calls[i].id
           old == trading_signals[id]
           new == ApplyPatch(old, AlertSentUpdate)
       IN /\ trading_signals' = [trading_signals EXCEPT ![id] = new]
          /\ calls' = [calls EXCEPT ![i].update = "applied",
                                    ![i].transition = (~old.alert_sent /\ new.alert_sent)]
    /\ UNCHANGED <<realtime, toasts, soundEnabled, notificationsEnabled, permission>>
    /\ UNCHANGED <<engineVars, extractVars, captureVars, sessionVars, listVars,
                   visionVars>>

\* The update request of call i fails; .then() has no handlers, nothing retries.
UpdateFailed(i) ==
    /\ i \in 1..Len(calls)
    /\ calls[i].update = "pending"
    /\ calls' = [calls EXCEPT ![i].update = "failed"]
    /\ UNCHANGED <<trading_signals, realtime, toasts, soundEnabled,
                   notificationsEnabled, permission>>
    /\ UNCHANGED <<engineVars, extractVars, captureVars, sessionVars, listVars,
                   visionVars>>

\* removeToast, run by the 10 s timer of the toast or by its close button.
RemoveToast(id) ==
    /\ \E k \in 1..Len(toasts) : toasts[k].id = id
    /\ toasts' = SelectSeq(toasts, LAMBDA t : t.id # id)
    /\ UNCHANGED <<trading_signals, realtime, calls, soundEnabled,
                   notificationsEnabled, permission>>
    /\ UNCHANGED <<engineVars, extractVars, captureVars, sessionVars, listVars,
                   visionVars>>

ToggleSound ==
    /\ soundEnabled' = ~soundEnabled
    /\ UNCHANGED <<trading_signals, realtime, calls, toasts, notificationsEnabled,
                   permission>>
    /\ UNCHANGED <<engineVars, extractVars, captureVars, sessionVars, listVars,
                   visionVars>>

ToggleNotifications ==
    /\ notificationsEnabled' = ~notificationsEnabled
    /\ UNCHANGED <<trading_signals, realtime, calls, toasts, soundEnabled, permission>>
    /\ UNCHANGED <<engineVars, extractVars, captureVars, sessionVars, listVars,
                   visionVars>>


(***************************************************************************)
(* lib/openai.ts: ChartAnalysis, TradingSignal, generateSignal             *)
(***************************************************************************)
Structure(type, direction, priceLevel, confidence) ==
    [type |-> type, direction |-> direction, priceLevel |-> priceLevel,
     confidence |-> confidence]

ChartAnalysis(timeframe, trendDirection, structures) ==
    [timeframe |-> timeframe, structures |-> structures,
     trendDirection |-> trendDirection, keyLevels |-> <<>>, analysis |-> ""]

Directions == {"bullish", "bearish", "neutral"}

\* The analyses generateSignal is applied to, per timeframe.
Structures4h ==
    { <<>>, <<Structure("bos", "bullish", 110, 85)>> }
Structures15m ==
    { <<>>,
      <<Structure("choch", "bullish", 105, 80)>>,
      <<Structure("choch", "bearish", 105, 80)>>,
      <<Structure("liquidity", "bullish", 104, 70)>> }
Structures3m ==
    { <<>>,
      <<Structure("order_block", "bullish", 100, 75)>>,
      <<Structure("order_block", "bearish", 104, 75)>>,
      <<Structure("bos", "bullish", 100, 85)>>,
      <<Structure("order_block", "bullish", 97, 75),
        Structure("order_block", "bullish", 100, 75)>>,
      <<Structure("order_block", "bullish", 100, 75),
        Structure("liquidity", "bullish", 103, 70)>> }
Structures1m ==
    { <<>>,
      <<Structure("bos", "bullish", 102, 85)>>,
      <<Structure("bos", "bearish", 98, 85)>>,
      <<Structure("liquidity", "bullish", 102, 70)>>,
      <<Structure("bos", "bullish", 102, 85),
        Structure("liquidity", "bullish", 101, 70)>> }

Bundles ==
    { [tf4h |-> ChartAnalysis("4h", d, s4), tf15m |-> ChartAnalysis("15m", "neutral", s15),
       tf3m |-> ChartAnalysis("3m", "neutral", s3), tf1m |-> ChartAnalysis("1m", "neutral", s1)] :
      d \in Directions, s4 \in Structures4h, s15 \in Structures15m,
      s3 \in Structures3m, s1 \in Structures1m }

\* What parseAnalysis returns for each timeframe: no structures, trend neutral.
EmptyBundle ==
    [tf4h |-> ChartAnalysis("4h", "neutral", <<>>),
     tf15m |-> ChartAnalysis("15m", "neutral", <<>>),
     tf3m |-> ChartAnalysis("3m", "neutral", <<>>),
     tf1m |-> ChartAnalysis("1m", "neutral", <<>>)]

\* user_settings.min_confidence_threshold and risk_reward_ratio, with their defaults.
DefaultMinConfidenceThreshold == 75
DefaultRiskRewardRatio == 5
SettingsValues ==
    { [min_confidence_threshold |-> t, risk_reward_ratio |-> r] :
      t \in {70, DefaultMinConfidenceThreshold}, r \in {3, DefaultRiskRewardRatio} }

\* data.choices[0].message.content of the completion.
BuyContent == "BUY entry 102 stop 100 target 112 (5:1), confidence 0.75"
Contents == { BuyContent, "No signal: the timeframes do not align" }

\* A parser that reads the signal out of the completion text.
ParseSignalFromContent(content) ==
    IF content = BuyContent
    THEN [signalType |-> "buy", entryPrice |-> 102, stopLoss |-> 100,
          takeProfit |-> 112, riskRewardRatio |-> 5, confidence |-> 0,
          reasoning |-> [tf4h |-> "", tf15m |-> "", tf3m |-> "", tf1m |-> ""]]
    ELSE [signalType |-> Null, entryPrice |-> Null, stopLoss |-> Null,
          takeProfit |-> Null, riskRewardRatio |-> Null, confidence |-> 0,
          reasoning |-> [tf4h |-> "", tf15m |-> "", tf3m |-> "", tf1m |-> ""]]

parseSignal(content) ==
    [signalType |-> Null, entryPrice |-> Null, stopLoss |-> Null,
     takeProfit |-> Null, riskRewardRatio |-> Null, confidence |-> 0,
     reasoning |-> [tf4h |-> "", tf15m |-> "", tf3m |-> "", tf1m |-> ""]]

\* generateSignal up to its first await: the completion request is sent.
GenerateSignalCall ==
    /\ pc = "idle"
    /\ pc' = "fetch"
    /\ UNCHANGED <<bundle, settings, response, result, previous>>
    /\ UNCHANGED <<alertVars, extractVars, captureVars, sessionVars, listVars,
                   visionVars>>

\* The request succeeds: the content is parsed and the signal returned.
GenerateSignalReturn(content) ==
    /\ pc = "fetch"
    /\ response' = "ok"
    /\ result' = parseSignal(content)
    /\ pc' = "returned"
    /\ UNCHANGED <<bundle, settings, previous>>
    /\ UNCHANGED <<alertVars, extractVars, captureVars, sessionVars, listVars,
                   visionVars>>

\* fetch rejects or response.ok is false: the error is logged and rethrown.
GenerateSignalThrow ==
    /\ pc = "fetch"
    /\ response' = "error"
    /\ pc' = "threw"
    /\ UNCHANGED <<bundle, settings, result, previous>>
    /\ UNCHANGED <<alertVars, extractVars, captureVars, sessionVars, listVars,
                   visionVars>>

\* generateSignal is called again with the same analyses and settings; the
\* outcome of the finished call is kept for comparison.
GenerateSignalAgain ==
    /\ pc \in {"returned", "threw"}
    /\ Len(previous) + 1 < MaxEvaluations
    /\ previous' = Append(previous, [outcome |-> pc, result |-> result])
    /\ pc' = "fetch"
    /\ response' = "none"
    /\ result' = NoResult
    /\ UNCHANGED <<bundle, settings>>
    /\ UNCHANGED <<alertVars, extractVars, captureVars, sessionVars, listVars,
                   visionVars>>


(***************************************************************************)
(* ScreenCapture.tsx: extractPrice, extractStructuresFromAnalysis          *)
(*                                                                         *)
(* A string is a sequence of one-character strings; an analysis text is    *)
(* the sequence of its lines (the text split at "\n").                     *)
(***************************************************************************)
UpperCase == <<"A", "B", "C", "D", "E", "F", "G", "H", "I", "J", "K", "L", "M",
               "N", "O", "P", "Q", "R", "S", "T", "U", "V", "W", "X", "Y", "Z">>
LowerCase == <<"a", "b", "c", "d", "e", "f", "g", "h", "i", "j", "k", "l", "m",
               "n", "o", "p", "q", "r", "s", "t", "u", "v", "w", "x", "y", "z">>
Digits == <<"0", "1", "2", "3", "4", "5", "6", "7", "8", "9">>

\* String.prototype.toLowerCase.
toLowerCase(str) ==
    [k \in 1..Len(str) |->
        IF \E u \in 1..Len(UpperCase) : UpperCase[u] = str[k]
        THEN LowerCase[CHOOSE u \in 1..Len(UpperCase) : UpperCase[u] = str[k]]
        ELSE str[k]]

\* String.prototype.includes.
includes(str, sub) ==
    \E i \in 1..(Len(str) - Len(sub) + 1) : SubSeq(str, i, i + Len(sub) - 1) = sub

IsDigit(c) == \E d \in 1..Len(Digits) : Digits[d] = c
DigitValue(c) == (CHOOSE d \in 1..Len(Digits) : Digits[d] = c) - 1

\* The string literals of extractStructuresFromAnalysis.
S_choch == <<"c", "h", "o", "c", "h">>
S_change_of_character == <<"c", "h", "a", "n", "g", "e", " ", "o", "f", " ", "c", "h", "a", "r", "a", "c", "t", "e", "r">>
S_bos == <<"b", "o", "s">>
S_break_of_structure == <<"b", "r", "e", "a", "k", " ", "o", "f", " ", "s", "t", "r", "u", "c", "t", "u", "r", "e">>
S_order_block == <<"o", "r", "d", "e", "r", " ", "b", "l", "o", "c", "k">>
S_liquidity == <<"l", "i", "q", "u", "i", "d", "i", "t", "y">>
S_pool == <<"p", "o", "o", "l">>
S_poi == <<"p", "o", "i">>
S_point_of_interest == <<"p", "o", "i", "n", "t", " ", "o", "f", " ", "i", "n", "t", "e", "r", "e", "s", "t">>
S_fib == <<"f", "i", "b">>
S_50 == <<"5", "0">>
S_0_5 == <<"0", ".", "5">>
S_bullish == <<"b", "u", "l", "l", "i", "s", "h">>
S_bearish == <<"b", "e", "a", "r", "i", "s", "h">>
S_demand == <<"d", "e", "m", "a", "n", "d">>
S_supply == <<"s", "u", "p", "p", "l", "y">>
S_above == <<"a", "b", "o", "v", "e">>
S_below == <<"b", "e", "l", "o", "w">>

\* The positions where /\$?([0-9]+(?:[,.]?[0-9]+)*)/ can start to match.
MatchStarts(str) ==
    {p \in 1..Len(str) :
        \/ IsDigit(str[p])
        \/ (str[p] = "$" /\ p < Len(str) /\ IsDigit(str[p + 1]))}

\* The last position of the match whose digits reach position q: more
\* digits, or one of "," and "." followed by a digit, extend it.
RECURSIVE MatchEnd(_, _)
MatchEnd(str, q) ==
    IF q < Len(str) /\ IsDigit(str[q + 1])
    THEN MatchEnd(str, q + 1)
    ELSE IF q + 1 < Len(str) /\ str[q + 1] \in {",", "."} /\ IsDigit(str[q + 2])
         THEN MatchEnd(str, q + 2)
         ELSE q

\* The matches of text.match(/.../g), as <<first, last>> positions, in order.
RECURSIVE MatchesFrom(_, _)
MatchesFrom(str, from) ==
    LET starts == {p \in MatchStarts(str) : p >= from}
    IN IF starts = {}
       THEN <<>>
       ELSE LET p == CHOOSE x \in starts : \A y \in starts : x <= y
                q == MatchEnd(str, IF str[p] = "$" THEN p + 1 ELSE p)
            IN <<(<<p, q>>)>> \o MatchesFrom(str, q + 1)

\* The number of leading digits of str.
RECURSIVE LeadingDigits(_)
LeadingDigits(str) ==
    IF str # <<>> /\ IsDigit(Head(str)) THEN 1 + LeadingDigits(Tail(str)) ELSE 0

\* The value of a string of digits.
RECURSIVE DigitsValue(_)
DigitsValue(str) ==
    IF str = <<>> THEN 0
    ELSE 10 * DigitsValue(SubSeq(str, 1, Len(str) - 1)) + DigitValue(str[Len(str)])

\* Prices are kept in hundredths.
PriceScale == 100

\* parseFloat of a string that starts with a digit: the leading digits and,
\* after a ".", the digits that follow; anything later is ignored. The value
\* is in hundredths (two decimals kept).
parseFloat(str) ==
    LET n == LeadingDigits(str)
        rest == SubSeq(str, n + 1, Len(str))
        frac == IF rest # <<>> /\ Head(rest) = "."
                THEN SubSeq(Tail(rest), 1, LeadingDigits(Tail(rest)))
                ELSE <<>>
        two == SubSeq(frac \o <<"0", "0">>, 1, 2)
    IN DigitsValue(SubSeq(str, 1, n)) * PriceScale + DigitsValue(two)

\* extractPrice returns null when the text holds no number.
NullPrice == -1

\* extractPrice picking the last match instead of the first.
extractLastPrice(text) ==
    LET matches == MatchesFrom(text, 1)
    IN IF matches # <<>>
       THEN LET m == matches[Len(matches)]
            IN parseFloat(SelectSeq(SubSeq(text, m[1], m[2]), LAMBDA c : c \notin {"$", ","}))
       ELSE NullPrice

extractPrice(text) ==
    LET matches == MatchesFrom(text, 1)
    IN IF matches # <<>>
       THEN LET m == matches[1]
            IN parseFloat(SelectSeq(SubSeq(text, m[1], m[2]), LAMBDA c : c \notin {"$", ","}))
       ELSE NullPrice

\* `if (price)`: null and 0 are falsy.
Truthy(price) == price # NullPrice /\ price # 0

ZeroRect == [x |-> 0, y |-> 0, width |-> 0, height |-> 0]

ExtractedStructure(type, direction, priceLevel, confidence) ==
    [type |-> type, direction |-> direction, priceLevel |-> priceLevel,
     confidence |-> confidence, coordinates |-> ZeroRect]

\* The six rules applied to one lower-cased line; each pushes at most one structure.
ChochRule(line) ==
    IF (includes(line, S_choch) \/ includes(line, S_change_of_character))
       /\ Truthy(extractPrice(line))
    THEN <<ExtractedStructure("choch",
              IF includes(line, S_bullish) THEN "bullish"
              ELSE IF includes(line, S_bearish) THEN "bearish" ELSE "neutral",
              extractPrice(line), 80)>>
    ELSE <<>>

\* The bos rule with the confidence of the choch rule.
BosRuleChochConfidence(line) ==
    IF (includes(line, S_bos) \/ includes(line, S_break_of_structure))
       /\ Truthy(extractPrice(line))
    THEN <<ExtractedStructure("bos",
              IF includes(line, S_bullish) THEN "bullish"
              ELSE IF includes(line, S_bearish) THEN "bearish" ELSE "neutral",
              extractPrice(line), 80)>>
    ELSE <<>>

BosRule(line) ==
    IF (includes(line, S_bos) \/ includes(line, S_break_of_structure))
       /\ Truthy(extractPrice(line))
    THEN <<ExtractedStructure("bos",
              IF includes(line, S_bullish) THEN "bullish"
              ELSE IF includes(line, S_bearish) THEN "bearish" ELSE "neutral",
              extractPrice(line), 85)>>
    ELSE <<>>

OrderBlockRule(line) ==
    IF includes(line, S_order_block) /\ Truthy(extractPrice(line))
    THEN <<ExtractedStructure("order_block",
              IF includes(line, S_bullish) \/ includes(line, S_demand) THEN "bullish"
              ELSE IF includes(line, S_bearish) \/ includes(line, S_supply) THEN "bearish"
              ELSE "neutral",
              extractPrice(line), 75)>>
    ELSE <<>>

LiquidityRule(line) ==
    IF (includes(line, S_liquidity) \/ includes(line, S_pool))
       /\ Truthy(extractPrice(line))
    THEN <<ExtractedStructure("liquidity",
              IF includes(line, S_above) THEN "bullish"
              ELSE IF includes(line, S_below) THEN "bearish" ELSE "neutral",
              extractPrice(line), 70)>>
    ELSE <<>>

\* The poi rule without its keyword test.
PoiRuleAnyLine(line) ==
    IF Truthy(extractPrice(line))
    THEN <<ExtractedStructure("poi", "neutral", extractPrice(line), 80)>>
    ELSE <<>>

PoiRule(line) ==
    IF (includes(line, S_poi) \/ includes(line, S_point_of_interest))
       /\ Truthy(extractPrice(line))
    THEN <<ExtractedStructure("poi", "neutral", extractPrice(line), 80)>>
    ELSE <<>>

Fib50Rule(line) ==
    IF includes(line, S_fib) /\ (includes(line, S_50) \/ includes(line, S_0_5))
       /\ Truthy(extractPrice(line))
    THEN <<ExtractedStructure("fib_50", "neutral", extractPrice(line), 75)>>
    ELSE <<>>

\* The body of the loop over the lines: the rules in their order.
LineStructures(line) ==
    ChochRule(line) \o BosRule(line) \o OrderBlockRule(line) \o LiquidityRule(line)
        \o PoiRule(line) \o Fib50Rule(line)

RECURSIVE StructuresOfLines(_)
StructuresOfLines(lines) ==
    IF lines = <<>> THEN <<>>
    ELSE LineStructures(Head(lines)) \o StructuresOfLines(Tail(lines))

\* analysisText.toLowerCase().split('\n'), then the loop. The timeframe
\* argument is not used.
extractStructuresFromAnalysis(text, timeframe) ==
    StructuresOfLines([k \in 1..Len(text) |-> toLowerCase(text[k])])

\* The lines the analysis texts are made of.
Lines ==
    {
      \* ""
      <<>>,
      \* "Price holds 1,200 bullish"
      <<"P", "r", "i", "c", "e", " ", "h", "o", "l", "d", "s", " ", "1", ",", "2", "0", "0", " ", "b", "u", "l", "l", "i", "s", "h">>,
      \* "Resistance above $1,234.50"
      <<"R", "e", "s", "i", "s", "t", "a", "n", "c", "e", " ", "a", "b", "o", "v", "e", " ", "$", "1", ",", "2", "3", "4", ".", "5", "0">>,
      \* "Trend is bearish"
      <<"T", "r", "e", "n", "d", " ", "i", "s", " ", "b", "e", "a", "r", "i", "s", "h">>,
      \* "BOS bullish at 1,200"
      <<"B", "O", "S", " ", "b", "u", "l", "l", "i", "s", "h", " ", "a", "t", " ", "1", ",", "2", "0", "0">>,
      \* "bos bearish 98.5"
      <<"b", "o", "s", " ", "b", "e", "a", "r", "i", "s", "h", " ", "9", "8", ".", "5">>,
      \* "Bullish BOS"
      <<"B", "u", "l", "l", "i", "s", "h", " ", "B", "O", "S">>,
      \* "BOS bullish 0"
      <<"B", "O", "S", " ", "b", "u", "l", "l", "i", "s", "h", " ", "0">>,
      \* "15m Break of Structure bullish $1,234.50"
      <<"1", "5", "m", " ", "B", "r", "e", "a", "k", " ", "o", "f", " ", "S", "t", "r", "u", "c", "t", "u", "r", "e", " ", "b", "u", "l", "l", "i", "s", "h", " ", "$", "1", ",", "2", "3", "4", ".", "5", "0">>,
      \* "CHOCH bearish at 1,300"
      <<"C", "H", "O", "C", "H", " ", "b", "e", "a", "r", "i", "s", "h", " ", "a", "t", " ", "1", ",", "3", "0", "0">>,
      \* "Change of Character at 1,200"
      <<"C", "h", "a", "n", "g", "e", " ", "o", "f", " ", "C", "h", "a", "r", "a", "c", "t", "e", "r", " ", "a", "t", " ", "1", ",", "2", "0", "0">>,
      \* "choch bullish"
      <<"c", "h", "o", "c", "h", " ", "b", "u", "l", "l", "i", "s", "h">>,
      \* "Order Block demand 1,200"
      <<"O", "r", "d", "e", "r", " ", "B", "l", "o", "c", "k", " ", "d", "e", "m", "a", "n", "d", " ", "1", ",", "2", "0", "0">>,
      \* "order block supply $98.50"
      <<"o", "r", "d", "e", "r", " ", "b", "l", "o", "c", "k", " ", "s", "u", "p", "p", "l", "y", " ", "$", "9", "8", ".", "5", "0">>,
      \* "Order block bearish at 0.5"
      <<"O", "r", "d", "e", "r", " ", "b", "l", "o", "c", "k", " ", "b", "e", "a", "r", "i", "s", "h", " ", "a", "t", " ", "0", ".", "5">>,
      \* "Order block liquidity at 1,200"
      <<"O", "r", "d", "e", "r", " ", "b", "l", "o", "c", "k", " ", "l", "i", "q", "u", "i", "d", "i", "t", "y", " ", "a", "t", " ", "1", ",", "2", "0", "0">>,
      \* "order block liquidity 0"
      <<"o", "r", "d", "e", "r", " ", "b", "l", "o", "c", "k", " ", "l", "i", "q", "u", "i", "d", "i", "t", "y", " ", "0">>,
      \* "Liquidity pool below 1,300"
      <<"L", "i", "q", "u", "i", "d", "i", "t", "y", " ", "p", "o", "o", "l", " ", "b", "e", "l", "o", "w", " ", "1", ",", "3", "0", "0">>,
      \* "liquidity above 1,200"
      <<"l", "i", "q", "u", "i", "d", "i", "t", "y", " ", "a", "b", "o", "v", "e", " ", "1", ",", "2", "0", "0">>,
      \* "pool 98.5"
      <<"p", "o", "o", "l", " ", "9", "8", ".", "5">>,
      \* "POI at 1,200"
      <<"P", "O", "I", " ", "a", "t", " ", "1", ",", "2", "0", "0">>,
      \* "Point of Interest bullish 1,300"
      <<"P", "o", "i", "n", "t", " ", "o", "f", " ", "I", "n", "t", "e", "r", "e", "s", "t", " ", "b", "u", "l", "l", "i", "s", "h", " ", "1", ",", "3", "0", "0">>,
      \* "Fib 50 at 1,200"
      <<"F", "i", "b", " ", "5", "0", " ", "a", "t", " ", "1", ",", "2", "0", "0">>,
      \* "fib 0.5 retracement 1,200"
      <<"f", "i", "b", " ", "0", ".", "5", " ", "r", "e", "t", "r", "a", "c", "e", "m", "e", "n", "t", " ", "1", ",", "2", "0", "0">>,
      \* "Fib retracement 1,200"
      <<"F", "i", "b", " ", "r", "e", "t", "r", "a", "c", "e", "m", "e", "n", "t", " ", "1", ",", "2", "0", "0">>,
      \* "fib at 1500"
      <<"f", "i", "b", " ", "a", "t", " ", "1", "5", "0", "0">>,
      \* "fib levels 0, 50, 100"
      <<"f", "i", "b", " ", "l", "e", "v", "e", "l", "s", " ", "0", ",", " ", "5", "0", ",", " ", "1", "0", "0">>,
      \* "CHOCH BOS order block liquidity POI fib 50"
      <<"C", "H", "O", "C", "H", " ", "B", "O", "S", " ", "o", "r", "d", "e", "r", " ", "b", "l", "o", "c", "k", " ", "l", "i", "q", "u", "i", "d", "i", "t", "y", " ", "P", "O", "I", " ", "f", "i", "b", " ", "5", "0">>,
      \* "bos 1,200 then 1,300 bullish"
      <<"b", "o", "s", " ", "1", ",", "2", "0", "0", " ", "t", "h", "e", "n", " ", "1", ",", "3", "0", "0", " ", "b", "u", "l", "l", "i", "s", "h">>,
      \* "boss level 1,200"
      <<"b", "o", "s", "s", " ", "l", "e", "v", "e", "l", " ", "1", ",", "2", "0", "0">>,
      \* "Liquidity"
      <<"L", "i", "q", "u", "i", "d", "i", "t", "y">>,
      \* "order block"
      <<"o", "r", "d", "e", "r", " ", "b", "l", "o", "c", "k">>,
      \* "bullish bearish bos 1,200"
      <<"b", "u", "l", "l", "i", "s", "h", " ", "b", "e", "a", "r", "i", "s", "h", " ", "b", "o", "s", " ", "1", ",", "2", "0", "0">>,
      \* "supply zone order block above 1,300"
      <<"s", "u", "p", "p", "l", "y", " ", "z", "o", "n", "e", " ", "o", "r", "d", "e", "r", " ", "b", "l", "o", "c", "k", " ", "a", "b", "o", "v", "e", " ", "1", ",", "3", "0", "0">>,
      \* "BOS at $1,234.5 bearish"
      <<"B", "O", "S", " ", "a", "t", " ", "$", "1", ",", "2", "3", "4", ".", "5", " ", "b", "e", "a", "r", "i", "s", "h">>,
      \* "poi bearish below 1,300"
      <<"p", "o", "i", " ", "b", "e", "a", "r", "i", "s", "h", " ", "b", "e", "l", "o", "w", " ", "1", ",", "3", "0", "0">>
    }

\* The lines of the texts of more than one line.
StackedLines ==
    {
      \* "Price holds 1,200 bullish"
      <<"P", "r", "i", "c", "e", " ", "h", "o", "l", "d", "s", " ", "1", ",", "2", "0", "0", " ", "b", "u", "l", "l", "i", "s", "h">>,
      \* "Trend is bearish"
      <<"T", "r", "e", "n", "d", " ", "i", "s", " ", "b", "e", "a", "r", "i", "s", "h">>,
      \* "Bullish BOS"
      <<"B", "u", "l", "l", "i", "s", "h", " ", "B", "O", "S">>,
      \* "order block supply $98.50"
      <<"o", "r", "d", "e", "r", " ", "b", "l", "o", "c", "k", " ", "s", "u", "p", "p", "l", "y", " ", "$", "9", "8", ".", "5", "0">>,
      \* "Order block liquidity at 1,200"
      <<"O", "r", "d", "e", "r", " ", "b", "l", "o", "c", "k", " ", "l", "i", "q", "u", "i", "d", "i", "t", "y", " ", "a", "t", " ", "1", ",", "2", "0", "0">>,
      \* "BOS bullish 0"
      <<"B", "O", "S", " ", "b", "u", "l", "l", "i", "s", "h", " ", "0">>,
      \* "CHOCH bearish at 1,300"
      <<"C", "H", "O", "C", "H", " ", "b", "e", "a", "r", "i", "s", "h", " ", "a", "t", " ", "1", ",", "3", "0", "0">>,
      \* "bos 1,200 then 1,300 bullish"
      <<"b", "o", "s", " ", "1", ",", "2", "0", "0", " ", "t", "h", "e", "n", " ", "1", ",", "3", "0", "0", " ", "b", "u", "l", "l", "i", "s", "h">>
    }

\* The analysis texts extraction is applied to: one to MaxLines lines.
Texts == [1..1 -> Lines] \cup UNION {[1..n -> StackedLines] : n \in 2..MaxLines}

Timeframes == <<"4h", "15m", "3m", "1m">>

NotExtracted == [returned |-> FALSE, structures |-> <<>>]

\* One call of extractStructuresFromAnalysis on the text.
Extract(timeframe) ==
    /\ extracted = NotExtracted
    /\ extracted' = [returned |-> TRUE,
                     structures |-> extractStructuresFromAnalysis(analysisText, timeframe)]
    /\ UNCHANGED analysisText
    /\ UNCHANGED <<alertVars, engineVars, captureVars, sessionVars, listVars,
                   visionVars>>

(***************************************************************************)
(* ScreenCapture.tsx: captureFrame, analyzeCapture                         *)
(*                                                                         *)
(* cycles[i] is the i-th run of the toBlob callback of captureFrame and    *)
(* of the analyzeCapture it starts: its position, the id of its            *)
(* chart_captures row (the captureId argument), the index of the timeframe *)
(* being analysed, the extracted structures still to insert, all the       *)
(* structures extracted so far, and the timeframe whose analyzeChart call  *)
(* threw.                                                                  *)
(***************************************************************************)
NoCaptureId == 0

NewCycle ==
    [pc |-> "saving", captureId |-> NoCaptureId, timeframe |-> 0,
     pending |-> <<>>, structures |-> <<>>, threw |-> "none"]

\* analysis.analysis, the text of the vision model, per timeframe.
ChartTexts(timeframe) ==
    CASE timeframe = "4h" ->
            { <<<<"B", "O", "S", " ", "b", "u", "l", "l", "i", "s", "h", " ", "a", "t", " ", "1", ",", "2", "0", "0">>>> }
      [] timeframe = "15m" ->
            { <<<<"C", "H", "O", "C", "H", " ", "b", "e", "a", "r", "i", "s", "h", " ", "a", "t", " ", "1", ",", "3", "0", "0">>,
                <<"B", "u", "l", "l", "i", "s", "h", " ", "B", "O", "S">>>> }
      [] timeframe = "3m" ->
            { <<<<"O", "r", "d", "e", "r", " ", "b", "l", "o", "c", "k", " ", "l", "i", "q", "u", "i", "d", "i", "t", "y", " ", "a", "t", " ", "1", ",", "2", "0", "0">>>> }
      [] timeframe = "1m" ->
            { <<<<"P", "r", "i", "c", "e", " ", "h", "o", "l", "d", "s", " ", "1", ",", "2", "0", "0", " ", "b", "u", "l", "l", "i", "s", "h">>>>,
              <<<<"L", "i", "q", "u", "i", "d", "i", "t", "y", " ", "p", "o", "o", "l", " ", "b", "e", "l", "o", "w", " ", "1", ",", "3", "0", "0">>>> }

\* The columns of table market_structures, and those an insert must
\* supply (NOT NULL without default).
MarketStructuresColumns ==
    {"id", "chart_capture_id", "user_id", "timeframe", "structure_type",
     "direction", "price_level", "confidence", "coordinates", "detected_at"}
MarketStructuresRequired ==
    {"chart_capture_id", "user_id", "timeframe", "structure_type",
     "direction", "price_level", "confidence", "coordinates"}

\* The object analyzeCapture passes to insert() for one structure.
StructureRow(i, captureId, structure) ==
    [user_id |-> "user",
     capture_id |-> captureId,
     structure_type |-> structure.type,
     direction |-> structure.direction,
     price_level |-> structure.priceLevel,
     confidence |-> structure.confidence,
     timeframe |-> Timeframes[cycles[i].timeframe],
     coordinates |-> structure.coordinates]

\* The table after from('market_structures').insert(values): the row is
\* stored under the generated key when the object names only columns of the
\* table and all the required ones; otherwise the request is answered with
\* an error and nothing is stored.
InsertMarketStructure(table, values, key) ==
    IF DOMAIN values \subseteq MarketStructuresColumns
       /\ MarketStructuresRequired \subseteq DOMAIN values
    THEN table \cup {[c \in DOMAIN values \cup {"id"} |->
                        IF c = "id" THEN key ELSE values[c]]}
    ELSE table

\* The id of the most recent chart_captures row.
LatestCaptureId(i) ==
    Cardinality({id \in CaptureIds : chart_captures[id] # NoCapture})

\* The captureId argument of the analyzeCapture call of cycle i.
CaptureIdOf(i) == cycles[i].captureId

\* A loop that ends after its first pass.
AfterFirstTimeframe(cycle) ==
    [cycle EXCEPT !.pc = "completing", !.pending = <<>>]

\* The position after the inserts of the current timeframe are answered:
\* the next timeframe of the loop, or the update that ends analyzeCapture.
AfterTimeframe(cycle) ==
    IF cycle.timeframe < Len(Timeframes)
    THEN [cycle EXCEPT !.pc = "analyzing", !.timeframe = cycle.timeframe + 1,
                       !.pending = <<>>]
    ELSE [cycle EXCEPT !.pc = "completing", !.pending = <<>>]

\* captureFrame, called by the 'Capture Now' button (disabled while
\* isAnalyzing) or by the auto-capture timer, passes its guards and toBlob
\* hands over the blob: setIsAnalyzing(true), the upload is started.
CaptureFrame(trigger) ==
    /\ Len(cycles) < MaxCaptures
    /\ trigger = "button" => ~isAnalyzing
    /\ cycles' = Append(cycles, NewCycle)
    /\ isAnalyzing' = TRUE
    /\ UNCHANGED <<openai_api_key, chart_captures, market_structures>>
    /\ UNCHANGED <<alertVars, engineVars, extractVars, sessionVars, listVars,
                   visionVars>>

\* The upload and the chart_captures insert succeed: the row is created
\* with analysis_status 'analyzing', the FileReader is started, and the
\* finally block runs setIsAnalyzing(false).
SaveCapture(i) ==
    /\ i \in 1..Len(cycles)
    /\ cycles[i].pc = "saving"
    /\ LET id == 1 + Cardinality({c \in CaptureIds : chart_captures[c] # NoCapture})
       IN /\ chart_captures' = [chart_captures EXCEPT ![id] = "analyzing"]
          /\ cycles' = [cycles EXCEPT ![i].pc = "reading", ![i].captureId = id]
    /\ isAnalyzing' = FALSE
    /\ UNCHANGED <<openai_api_key, market_structures>>
    /\ UNCHANGED <<alertVars, engineVars, extractVars, sessionVars, listVars,
                   visionVars>>

\* The upload or the insert reports an error: it is thrown, caught and
\* logged; setIsAnalyzing(false).
SaveCaptureFailed(i) ==
    /\ i \in 1..Len(cycles)
    /\ cycles[i].pc = "saving"
    /\ cycles' = [cycles EXCEPT ![i].pc = "aborted"]
    /\ isAnalyzing' = FALSE
    /\ UNCHANGED <<openai_api_key, chart_captures, market_structures>>
    /\ UNCHANGED <<alertVars, engineVars, extractVars, sessionVars, listVars,
                   visionVars>>

\* reader.onloadend calls analyzeCapture; it reads openai_api_key and
\* returns when the key is missing, otherwise it enters the timeframe loop
\* and calls analyzeChart for '4h'.
AnalyzeCapture(i) ==
    /\ i \in 1..Len(cycles)
    /\ cycles[i].pc = "reading"
    /\ cycles' = IF openai_api_key
                 THEN [cycles EXCEPT ![i].pc = "analyzing", ![i].timeframe = 1]
                 ELSE [cycles EXCEPT ![i].pc = "no key"]
    /\ UNCHANGED <<openai_api_key, chart_captures, market_structures, isAnalyzing>>
    /\ UNCHANGED <<alertVars, engineVars, extractVars, sessionVars, listVars,
                   visionVars>>

\* analyzeChart returns the analysis of the current timeframe: the
\* structures are extracted and the first insert is issued; with no
\* structure the loop moves on.
AnalyzeChartReturn(i, text) ==
    /\ i \in 1..Len(cycles)
    /\ cycles[i].pc = "analyzing"
    /\ text \in ChartTexts(Timeframes[cycles[i].timeframe])
    /\ \E structures \in
             {extractStructuresFromAnalysis(text, Timeframes[cycles[i].timeframe])} :
          cycles' = [cycles EXCEPT ![i] =
              IF structures = <<>>
              THEN AfterTimeframe(cycles[i])
              ELSE [cycles[i] EXCEPT
                      !.pc = "storing",
                      !.pending = structures,
                      !.structures = cycles[i].structures \o
                          [k \in 1..Len(structures) |->
                              [timeframe |-> cycles[i].timeframe,
                               structure |-> structures[k]]]]]
    /\ UNCHANGED <<openai_api_key, chart_captures, market_structures, isAnalyzing>>
    /\ UNCHANGED <<alertVars, engineVars, extractVars, sessionVars, listVars,
                   visionVars>>

\* analyzeChart throws and the call is taken as an analysis without text.
AnalyzeChartFallback(i) ==
    /\ i \in 1..Len(cycles)
    /\ cycles[i].pc = "analyzing"
    /\ cycles' = [cycles EXCEPT ![i] =
          AfterTimeframe([cycles[i] EXCEPT !.threw = Timeframes[cycles[i].timeframe]])]
    /\ UNCHANGED <<openai_api_key, chart_captures, market_structures, isAnalyzing>>
    /\ UNCHANGED <<alertVars, engineVars, extractVars, sessionVars, listVars,
                   visionVars>>

\* analyzeChart throws (fetch rejects or response.ok is false): the catch
\* block of analyzeCapture logs it and sets 'Analysis failed'.
AnalyzeChartThrow(i) ==
    /\ i \in 1..Len(cycles)
    /\ cycles[i].pc = "analyzing"
    /\ cycles' = [cycles EXCEPT ![i].pc = "failed",
                                ![i].threw = Timeframes[cycles[i].timeframe]]
    /\ UNCHANGED <<openai_api_key, chart_captures, market_structures, isAnalyzing>>
    /\ UNCHANGED <<alertVars, engineVars, extractVars, sessionVars, listVars,
                   visionVars>>

\* The insert of one structure is answered (its result is not read); the
\* next one is issued, or the loop moves on.
InsertStructure(i) ==
    /\ i \in 1..Len(cycles)
    /\ cycles[i].pc = "storing"
    /\ market_structures' = InsertMarketStructure(market_structures,
          StructureRow(i, CaptureIdOf(i), Head(cycles[i].pending)),
          <<i, cycles[i].timeframe, Len(cycles[i].pending)>>)
    /\ cycles' = [cycles EXCEPT ![i] =
          IF Tail(cycles[i].pending) = <<>>
          THEN AfterTimeframe(cycles[i])
          ELSE [cycles[i] EXCEPT !.pending = Tail(cycles[i].pending)]]
    /\ UNCHANGED <<openai_api_key, chart_captures, isAnalyzing>>
    /\ UNCHANGED <<alertVars, engineVars, extractVars, sessionVars, listVars,
                   visionVars>>

\* update({analysis_status: 'completed'}).eq('id', captureId) after the loop.
MarkCompleted(i) ==
    /\ i \in 1..Len(cycles)
    /\ cycles[i].pc = "completing"
    /\ chart_captures' = [chart_captures EXCEPT ![CaptureIdOf(i)] = "completed"]
    /\ cycles' = [cycles EXCEPT ![i].pc = "done"]
    /\ UNCHANGED <<openai_api_key, market_structures, isAnalyzing>>
    /\ UNCHANGED <<alertVars, engineVars, extractVars, sessionVars, listVars,
                   visionVars>>

(***************************************************************************)
(* ScreenCapture.tsx: startCapture, stopCapture, the auto-capture timer    *)
(*                                                                         *)
(* A MediaStream and the interval set for it carry the number of the       *)
(* startCapture call that created them. A function created in a render     *)
(* reads the `stream` of that render: the interval callback and the        *)
(* 'ended' listener keep the value `stream` had when Start was clicked.    *)
(***************************************************************************)
MaxStarts == 2         \* startCapture calls
MaxTicks == 2          \* recorded runs of an interval callback

NoStream == 0
NoTimer == 0

\* clearInterval(id); clearing null or a cleared id does nothing.
ClearInterval(set, id) == {t \in set : t.id # id}

\* stream.getTracks().forEach(track => track.stop()) on stream s; stopping a
\* track fires no 'ended' event.
StopTracks(set, s) == {l \in set : l.track # s}

\* The checkbox 'Enable automatic capture'.
ToggleAutoCapture ==
    /\ autoCapture' = ~autoCapture
    /\ UNCHANGED <<stream, listeners, isCapturing, intervalRef, timers, pendingStarts,
                   started, batched, ticks>>
    /\ UNCHANGED <<alertVars, engineVars, extractVars, captureVars, listVars,
                   visionVars>>

\* startCapture up to its await: 'Start Capture' is rendered while
\* !isCapturing; the call keeps the stream and the settings of its render.
StartCapture ==
    /\ ~isCapturing
    /\ started < MaxStarts
    /\ started' = started + 1
    /\ pendingStarts' = pendingStarts \cup {[id |-> started + 1, stream |-> stream,
                               autoCapture |-> autoCapture]}
    /\ UNCHANGED <<stream, listeners, isCapturing, autoCapture, intervalRef, timers,
                   batched, ticks>>
    /\ UNCHANGED <<alertVars, engineVars, extractVars, captureVars, listVars,
                   visionVars>>

\* The cleanup of the effect on [stream] runs when `stream` changes. A build
\* that batches the updates made after an await renders after startCapture
\* has finished, so the cleanup reads the intervalRef.current startCapture has
\* just assigned; otherwise setIsCapturing renders at once and the cleanup
\* runs before setInterval.
CleanupAfterSetInterval == batched

\* getDisplayMedia resolves for call c: setStream, the 'ended' listener,
\* setIsCapturing(true), the interval if settings.autoCapture; the cleanup of
\* the previous [stream] effect stops the previous stream's tracks and calls
\* clearInterval(intervalRef.current).
StartCaptureResolved(c) ==
    /\ c \in pendingStarts
    /\ LET created == IF c.autoCapture
                      THEN {[id |-> c.id, stream |-> c.stream]}
                      ELSE {}
           ref == IF c.autoCapture THEN c.id ELSE intervalRef
       IN /\ timers' = IF CleanupAfterSetInterval
                       THEN ClearInterval(timers \cup created, ref)
                       ELSE ClearInterval(timers, intervalRef) \cup created
          /\ intervalRef' = ref
    /\ stream' = c.id
    /\ listeners' = StopTracks(listeners, stream) \cup {[track |-> c.id, stream |-> c.stream]}
    /\ isCapturing' = TRUE
    /\ pendingStarts' = pendingStarts \ {c}
    /\ UNCHANGED <<autoCapture, started, batched, ticks>>
    /\ UNCHANGED <<alertVars, engineVars, extractVars, captureVars, listVars,
                   visionVars>>

\* getDisplayMedia rejects: the error is logged and an alert shown.
StartCaptureRejected(c) ==
    /\ c \in pendingStarts
    /\ pendingStarts' = pendingStarts \ {c}
    /\ UNCHANGED <<stream, listeners, isCapturing, autoCapture, intervalRef, timers,
                   started, batched, ticks>>
    /\ UNCHANGED <<alertVars, engineVars, extractVars, captureVars, listVars,
                   visionVars>>

\* A stopCapture that leaves the interval running.
StopCaptureKeepsTimer(s, live) ==
    /\ stream' = IF s # NoStream THEN NoStream ELSE stream
    /\ listeners' = IF s # NoStream
                    THEN StopTracks(StopTracks(live, s), stream)
                    ELSE live
    /\ timers' = timers
    /\ intervalRef' = intervalRef
    /\ isCapturing' = FALSE

\* stopCapture of a render whose `stream` is s, with the tracks in `live`
\* still running: the tracks of s are stopped and the state set to null (the
\* [stream] cleanup then stops the tracks of the state's stream), the interval
\* in intervalRef is cleared, isCapturing becomes false.
stopCapture(s, live) ==
    /\ stream' = IF s # NoStream THEN NoStream ELSE stream
    /\ listeners' = IF s # NoStream
                    THEN StopTracks(StopTracks(live, s), stream)
                    ELSE live
    /\ timers' = ClearInterval(timers, intervalRef)
    /\ intervalRef' = NoTimer
    /\ isCapturing' = FALSE

\* The button 'Stop Capture', rendered while isCapturing.
StopCapture ==
    /\ isCapturing
    /\ stopCapture(stream, listeners)
    /\ UNCHANGED <<autoCapture, pendingStarts, started, batched, ticks>>
    /\ UNCHANGED <<alertVars, engineVars, extractVars, captureVars, listVars,
                   visionVars>>

\* The user ends the sharing from the browser: the track fires 'ended' and
\* its listener runs the stopCapture of the render startCapture came from.
TrackEnded(l) ==
    /\ l \in listeners
    /\ stopCapture(l.stream, listeners \ {l})
    /\ UNCHANGED <<autoCapture, pendingStarts, started, batched, ticks>>
    /\ UNCHANGED <<alertVars, engineVars, extractVars, captureVars, listVars,
                   visionVars>>

\* The `stream` the captureFrame of timer t tests in its guard: that of the
\* render in which startCapture was created.
GuardStream(t) == t.stream

\* An interval fires: captureFrame returns at its guard when its `stream` is
\* null, else draws the video frame and starts the toBlob callback.
TimerTick(t) ==
    /\ t \in timers
    /\ Len(ticks) < MaxTicks
    /\ ticks' = Append(ticks,
          [frame |-> GuardStream(t) # NoStream,
           live |-> \E l \in listeners : l.track = stream,
           isCapturing |-> isCapturing])
    /\ UNCHANGED <<stream, listeners, isCapturing, autoCapture, intervalRef, timers,
                   pendingStarts, started, batched>>
    /\ UNCHANGED <<alertVars, engineVars, extractVars, captureVars, listVars,
                   visionVars>>

(***************************************************************************)
(* TrainingUpload.tsx: TradingSignals (filter, loadSignals, subscription)  *)
(***************************************************************************)
MaxLoads == 4          \* loadSignals calls, the two made on mount included

Filters == {"all", "active", "completed"}

\* The statuses a filter selects (.in('status', ...)); 'all' adds no condition.
StatusesOf(f) ==
    IF f = "active" THEN {"pending", "active"}
    ELSE IF f = "completed" THEN {"triggered", "expired", "cancelled"}
    ELSE {"pending", "active", "triggered", "expired", "cancelled"}

\* The rows the query of loadSignals returns under filter f (their ids; at
\* most MaxSignals rows exist, fewer than the limit of 50).
Query(f, table) ==
    {id \in SignalIds : table[id] # NoRow /\ table[id].status \in StatusesOf(f)}

\* The filter the loadSignals of the subscription callback reads: the effect
\* runs on mount (deps [user]), so the callback keeps the loadSignals of the
\* first render, where filter is 'all'.
SubscribedFilter == "all"

\* loadSignals is called under filter f: the request is sent.
LoadSignals(f) ==
    /\ issued < MaxLoads
    /\ issued' = issued + 1
    /\ loads' = Append(loads, f)

\* A row is inserted by the signal producer; the channel 'trading_signals'
\* (event '*') runs its callback.
SignalInserted(id, v) ==
    /\ ~Exists(id)
    /\ trading_signals' = [trading_signals EXCEPT ![id] = NewRow(id, v)]
    /\ realtime' = realtime \cup {NewRow(id, v)}
    /\ LoadSignals(SubscribedFilter)
    /\ UNCHANGED <<calls, toasts, soundEnabled, notificationsEnabled, permission>>
    /\ UNCHANGED <<filter, signals, loadError>>
    /\ UNCHANGED <<engineVars, extractVars, captureVars, sessionVars, visionVars>>

\* The order tracking outside this program moves a pending signal on; the
\* channel runs its callback for the UPDATE.
SignalTriggered(id) ==
    /\ Exists(id)
    /\ trading_signals[id].status = "pending"
    /\ trading_signals' = [trading_signals EXCEPT ![id].status = "triggered"]
    /\ LoadSignals(SubscribedFilter)
    /\ UNCHANGED <<realtime, calls, toasts, soundEnabled, notificationsEnabled,
                   permission>>
    /\ UNCHANGED <<filter, signals, loadError>>
    /\ UNCHANGED <<engineVars, extractVars, captureVars, sessionVars, visionVars>>

\* A filter button: setFilter(f); the effect on [filter] calls the
\* loadSignals of the new render.
SelectFilter(f) ==
    /\ f # filter
    /\ filter' = f
    /\ LoadSignals(f)
    /\ UNCHANGED <<signals, loadError>>
    /\ UNCHANGED <<alertVars, engineVars, extractVars, captureVars, sessionVars,
                   visionVars>>

Without(seq, k) == [j \in 1..(Len(seq) - 1) |-> IF j < k THEN seq[j] ELSE seq[j + 1]]

\* The k-th request in flight is answered with its rows: setSignals(data).
LoadSignalsAnswered(k) ==
    /\ k \in 1..Len(loads)
    /\ signals' = Query(loads[k], trading_signals)
    /\ loads' = Without(loads, k)
    /\ UNCHANGED <<filter, issued, loadError>>
    /\ UNCHANGED <<alertVars, engineVars, extractVars, captureVars, sessionVars,
                   visionVars>>

\* The k-th request in flight is answered with an error: logged, the list kept.
LoadSignalsFailed(k) ==
    /\ k \in 1..Len(loads)
    /\ loads' = Without(loads, k)
    /\ loadError' = TRUE
    /\ UNCHANGED <<filter, signals, issued>>
    /\ UNCHANGED <<alertVars, engineVars, extractVars, captureVars, sessionVars,
                   visionVars>>

(***************************************************************************)
(* lib/openai.ts: analyzeChart, parseAnalysis                              *)
(***************************************************************************)
TimeframeSet == {Timeframes[k] : k \in 1..Len(Timeframes)}

NoAnalysis == [timeframe |-> "none"]
AnalysisThrew == [timeframe |-> "threw"]

\* data.choices[0].message.content of a vision completion.
BullishContent == "Trend: bullish. BOS at 110, order block at 100."
VisionContents == { BullishContent, "No clear structure." }

\* A parser that reads the trend and a structure out of the completion text.
ParseAnalysisFromContent(content, timeframe) ==
    IF content = BullishContent
    THEN [timeframe |-> timeframe,
          structures |-> <<Structure("bos", "bullish", 110, 85)>>,
          trendDirection |-> "bullish", keyLevels |-> <<>>, analysis |-> content]
    ELSE [timeframe |-> timeframe, structures |-> <<>>,
          trendDirection |-> "neutral", keyLevels |-> <<>>, analysis |-> content]

parseAnalysis(content, timeframe) ==
    [timeframe |-> timeframe, structures |-> <<>>, trendDirection |-> "neutral",
     keyLevels |-> <<>>, analysis |-> content]

\* analyzeChart on one timeframe: the vision request succeeds and the content
\* is parsed.
AnalyzeChart(timeframe, content) ==
    /\ analysis[timeframe] = NoAnalysis
    /\ analysis' = [analysis EXCEPT ![timeframe] = parseAnalysis(content, timeframe)]
    /\ UNCHANGED <<alertVars, engineVars, extractVars, captureVars, sessionVars,
                   listVars>>

\* analyzeChart on one timeframe: response.ok is false or fetch rejects; the
\* error is logged and rethrown.
AnalyzeChartError(timeframe) ==
    /\ analysis[timeframe] = NoAnalysis
    /\ analysis' = [analysis EXCEPT ![timeframe] = AnalysisThrew]
    /\ UNCHANGED <<alertVars, engineVars, extractVars, captureVars, sessionVars,
                   listVars>>

(***************************************************************************)
(* Specifications                                                          *)
(***************************************************************************)
\* No extraction under way.
ExtractIdle ==
    /\ analysisText = <<>>
    /\ extracted = NotExtracted

\* No capture taken yet.
CaptureIdle ==
    /\ openai_api_key = TRUE
    /\ chart_captures = [id \in CaptureIds |-> NoCapture]
    /\ market_structures = {}
    /\ cycles = <<>>
    /\ isAnalyzing = FALSE

\* No generateSignal call made yet, on the analyses parseAnalysis returns.
EngineIdle ==
    /\ bundle = EmptyBundle
    /\ settings = [min_confidence_threshold |-> DefaultMinConfidenceThreshold,
                   risk_reward_ratio |-> DefaultRiskRewardRatio]
    /\ pc = "idle"
    /\ response = "none"
    /\ result = NoResult
    /\ previous = <<>>

\* No capture session started.
SessionIdle ==
    /\ stream = NoStream
    /\ listeners = {}
    /\ isCapturing = FALSE
    /\ autoCapture = FALSE
    /\ intervalRef = NoTimer
    /\ timers = {}
    /\ pendingStarts = {}
    /\ started = 0
    /\ batched = FALSE
    /\ ticks = <<>>

\* The signal list not mounted.
ListIdle ==
    /\ filter = "all"
    /\ signals = {}
    /\ loads = <<>>
    /\ issued = 0
    /\ loadError = FALSE

\* No analyzeChart call made.
VisionIdle == analysis = [t \in TimeframeSet |-> NoAnalysis]

AlertInit ==
    /\ trading_signals = [id \in SignalIds |-> NoRow]
    /\ realtime = {}
    /\ calls = <<>>
    /\ toasts = <<>>
    /\ soundEnabled = TRUE
    /\ notificationsEnabled = TRUE
    /\ permission = "default"

Init ==
    /\ AlertInit
    /\ bundle = EmptyBundle
    /\ settings = [min_confidence_threshold |-> DefaultMinConfidenceThreshold,
                   risk_reward_ratio |-> DefaultRiskRewardRatio]
    /\ pc = "idle"
    /\ response = "none"
    /\ result = NoResult
    /\ previous = <<>>
    /\ ExtractIdle
    /\ CaptureIdle
    /\ SessionIdle
    /\ ListIdle
    /\ VisionIdle

Next ==
    \/ \E id \in SignalIds : \E v \in ValuesFor(id) : InsertSignal(id, v)
    \/ \E answer \in {"granted", "denied"} : RequestNotificationPermission(answer)
    \/ \E signal \in realtime : OnInsert(signal)
    \/ \E i \in 1..MaxCalls : UpdateApplied(i)
    \/ \E i \in 1..MaxCalls : UpdateFailed(i)
    \/ \E id \in SignalIds : RemoveToast(id)
    \/ ToggleSound
    \/ ToggleNotifications

\* The alert path: inserts, realtime deliveries, showAlert, the alert_sent update.
Spec == Init /\ [][Next]_vars

EngineInit ==
    /\ AlertInit
    /\ SessionIdle
    /\ ListIdle
    /\ VisionIdle
    /\ bundle \in Bundles
    /\ settings \in SettingsValues
    /\ pc = "idle"
    /\ response = "none"
    /\ result = NoResult
    /\ previous = <<>>
    /\ ExtractIdle
    /\ CaptureIdle

EngineNext ==
    \/ GenerateSignalCall
    \/ \E content \in Contents : GenerateSignalReturn(content)
    \/ GenerateSignalThrow
    \/ GenerateSignalAgain

\* generateSignal applied to every bundle and setting of the bounded input sets.
EngineSpec == EngineInit /\ [][EngineNext]_vars

ExtractInit ==
    /\ AlertInit
    /\ SessionIdle
    /\ ListIdle
    /\ VisionIdle
    /\ EngineIdle
    /\ CaptureIdle
    /\ analysisText \in Texts
    /\ extracted = NotExtracted

ExtractNext == \E k \in 1..Len(Timeframes) : Extract(Timeframes[k])

\* extractStructuresFromAnalysis applied to every text of the bounded set.
ExtractSpec == ExtractInit /\ [][ExtractNext]_vars

CaptureInit ==
    /\ AlertInit
    /\ SessionIdle
    /\ ListIdle
    /\ VisionIdle
    /\ EngineIdle
    /\ ExtractIdle
    /\ openai_api_key \in BOOLEAN
    /\ chart_captures = [id \in CaptureIds |-> NoCapture]
    /\ market_structures = {}
    /\ cycles = <<>>
    /\ isAnalyzing = FALSE

CaptureNext ==
    \/ \E trigger \in {"button", "timer"} : CaptureFrame(trigger)
    \/ \E i \in 1..MaxCaptures : SaveCapture(i)
    \/ \E i \in 1..MaxCaptures : SaveCaptureFailed(i)
    \/ \E i \in 1..MaxCaptures : AnalyzeCapture(i)
    \/ \E i \in 1..MaxCaptures :
          \E text \in UNION {ChartTexts(Timeframes[k]) : k \in 1..Len(Timeframes)} :
             AnalyzeChartReturn(i, text)
    \/ \E i \in 1..MaxCaptures : AnalyzeChartThrow(i)
    \/ \E i \in 1..MaxCaptures : InsertStructure(i)
    \/ \E i \in 1..MaxCaptures : MarkCompleted(i)

\* The capture cycles: captureFrame and the analyzeCapture runs it starts.
CaptureSpec == CaptureInit /\ [][CaptureNext]_vars

SessionInit ==
    /\ AlertInit
    /\ EngineIdle
    /\ ExtractIdle
    /\ CaptureIdle
    /\ ListIdle
    /\ VisionIdle
    /\ stream = NoStream
    /\ listeners = {}
    /\ isCapturing = FALSE
    /\ autoCapture \in BOOLEAN
    /\ intervalRef = NoTimer
    /\ timers = {}
    /\ pendingStarts = {}
    /\ started = 0
    /\ batched \in BOOLEAN
    /\ ticks = <<>>

SessionNext ==
    \/ ToggleAutoCapture
    \/ StartCapture
    \/ \E c \in pendingStarts : StartCaptureResolved(c)
    \/ \E c \in pendingStarts : StartCaptureRejected(c)
    \/ StopCapture
    \/ \E l \in listeners : TrackEnded(l)
    \/ \E t \in timers : TimerTick(t)

\* The capture session: start, stop, the shared track ending, the timer.
SessionSpec == SessionInit /\ [][SessionNext]_vars

ListInit ==
    /\ AlertInit
    /\ EngineIdle
    /\ ExtractIdle
    /\ CaptureIdle
    /\ SessionIdle
    /\ VisionIdle
    /\ filter = "all"
    /\ signals = {}
    /\ loads = <<"all", "all">>
    /\ issued = 2
    /\ loadError = FALSE

ListNext ==
    \/ \E id \in SignalIds : \E v \in ValuesFor(id) : SignalInserted(id, v)
    \/ \E id \in SignalIds : SignalTriggered(id)
    \/ \E f \in Filters : SelectFilter(f)
    \/ \E k \in 1..MaxLoads : LoadSignalsAnswered(k)
    \/ \E k \in 1..MaxLoads : LoadSignalsFailed(k)

\* The signal list: mounted (both effects have called loadSignals), then
\* filter selections, table changes and answers in any order.
ListSpec == ListInit /\ [][ListNext]_vars

PipelineInit ==
    /\ AlertInit
    /\ EngineIdle
    /\ ExtractIdle
    /\ CaptureIdle
    /\ SessionIdle
    /\ ListIdle
    /\ analysis = [t \in TimeframeSet |-> NoAnalysis]

PipelineNext ==
    \/ \E t \in TimeframeSet : \E content \in VisionContents : AnalyzeChart(t, content)
    \/ \E t \in TimeframeSet : AnalyzeChartError(t)
    \/ GenerateSignalCall
    \/ \E content \in Contents : GenerateSignalReturn(content)
    \/ GenerateSignalThrow
    \/ GenerateSignalAgain

\* The analysis client: analyzeChart per timeframe and generateSignal on the
\* analyses parseAnalysis returns.
PipelineSpec == PipelineInit /\ [][PipelineNext]_vars

(***************************************************************************)
(* Alert dispatch: C1 - C4                                                 *)
(***************************************************************************)
CallsFor(id) == {i \in 1..Len(calls) : calls[i].id = id}
Settled(i) == calls[i].update \in {"applied", "none"}
AnySideEffect(i) == calls[i].toast \/ calls[i].sound \/ calls[i].notification

\* C1: when the gate has run twice for the same signal identifier and both
\* runs have completed, exactly one of them performed the alert_sent
\* false->true transition and acted as the winner (reported true), the other
\* did not (reported false), and alert_sent is true.
C1_ExactlyOneWinner ==
    \A i, j \in 1..Len(calls) :
        (i < j /\ calls[i].id = calls[j].id /\ Settled(i) /\ Settled(j)) =>
            /\ trading_signals[calls[i].id].alert_sent
            /\ (calls[i].shown /\ calls[i].transition) # (calls[j].shown /\ calls[j].transition)
            /\ calls[i].shown # calls[j].shown

\* C2: every side effect of a run (toast, sound, system notification) comes
\* after that same run has performed the alert_sent false->true transition.
C2_SideEffectsBehindTransition ==
    \A i \in 1..Len(calls) : AnySideEffect(i) => calls[i].transition

\* C3: under at-least-once delivery each signal identifier is announced to
\* the user at most once.
C3_AnnouncedAtMostOnce ==
    \A id \in SignalIds :
        Cardinality({i \in CallsFor(id) : AnySideEffect(i)}) <= 1

\* C4: alert_sent is false when the signal is created and, once true, stays
\* true in every step of the program.
C4_AlertSentMonotonic ==
    [][\A id \in SignalIds :
          /\ (trading_signals[id] = NoRow /\ trading_signals'[id] # NoRow)
                => ~trading_signals'[id].alert_sent
          /\ (trading_signals[id] # NoRow /\ trading_signals[id].alert_sent)
                => (trading_signals'[id] # NoRow /\ trading_signals'[id].alert_sent)]_vars

\* Two updates for the same signal have been applied and alert_sent is true.
C4_Witness ==
    \E i, j \in 1..Len(calls) :
        /\ i # j /\ calls[i].id = calls[j].id
        /\ calls[i].update = "applied" /\ calls[j].update = "applied"
        /\ trading_signals[calls[i].id].alert_sent

(***************************************************************************)
(* Decision engine: C5 - C10, C15                                          *)
(***************************************************************************)
Range(seq) == {seq[k] : k \in 1..Len(seq)}
SetMin(S) == CHOOSE x \in S : \A y \in S : x <= y
SetMax(S) == CHOOSE x \in S : \A y \in S : x >= y
Abs(x) == IF x < 0 THEN -x ELSE x

Bias(b) == b.tf4h.trendDirection
Confirming4h(b) == {s \in Range(b.tf4h.structures) : s.direction = Bias(b)}
Confirming15m(b) == {s \in Range(b.tf15m.structures) : s.direction = Bias(b)}
Confirming3m(b) ==
    {s \in Range(b.tf3m.structures) : s.type = "order_block" /\ s.direction = Bias(b)}
Confirming1m(b) == {s \in Range(b.tf1m.structures) : s.direction = Bias(b)}

\* The confluence rule: a directional 4h trend confirmed on 15m, 3m and 1m.
Confluence(b) ==
    /\ Bias(b) \in {"bullish", "bearish"}
    /\ Confirming15m(b) # {}
    /\ Confirming3m(b) # {}
    /\ Confirming1m(b) # {}

\* The weakest-link confidences of the confirming chains of b: one confirming
\* structure per stage (the 4h stage counts when it has a structure in the
\* direction of the trend).
StageMinima(b) ==
    { SetMin({s15.confidence, s3.confidence, s1.confidence}
             \cup {s.confidence : s \in Confirming4h(b)}) :
      s15 \in Confirming15m(b), s3 \in Confirming3m(b), s1 \in Confirming1m(b) }

\* The bundles for which the rule asks for a signal.
SignalDue(b, cfg) ==
    /\ Confluence(b)
    /\ \E c \in StageMinima(b) : c >= cfg.min_confidence_threshold

IsSignal(r) == r.signalType \in {"buy", "sell"}

C6Bundle ==
    [tf4h |-> ChartAnalysis("4h", "bullish", <<>>),
     tf15m |-> ChartAnalysis("15m", "neutral", <<Structure("choch", "bullish", 105, 80)>>),
     tf3m |-> ChartAnalysis("3m", "neutral", <<Structure("order_block", "bullish", 100, 75)>>),
     tf1m |-> ChartAnalysis("1m", "neutral", <<Structure("bos", "bullish", 102, 85)>>)]

\* C6: for the bundle above and min_confidence_threshold 0.75, generateSignal
\* returns a buy signal with entry_price 102, confidence_score the minimum of
\* the stage confidences, and take_profit - 102 = ratio * (102 - stop_loss).
C6_ConfluenceEmitsBuy ==
    (pc = "returned" /\ bundle = C6Bundle
        /\ settings.min_confidence_threshold = DefaultMinConfidenceThreshold) =>
        /\ result.signalType = "buy"
        /\ result.entryPrice = 102
        /\ result.confidence = SetMin({80, 75, 85})
        /\ result.takeProfit - 102
              = settings.risk_reward_ratio * (102 - result.stopLoss)

\* C7: a returned signal has confidence_score >= min_confidence_threshold,
\* and a bundle in confluence whose aggregated confidence is below the
\* threshold (0.70 against 0.75) gets no signal.
C7_ConfidenceThreshold ==
    /\ (pc = "returned" /\ IsSignal(result))
          => result.confidence >= settings.min_confidence_threshold
    /\ (pc = "returned" /\ Confluence(bundle)
          /\ \A c \in StageMinima(bundle) : c < settings.min_confidence_threshold)
          => result.signalType = Null

\* generateSignal has returned for a bundle in confluence with aggregated
\* confidence 0.70 under threshold 0.75, and returned no signal.
C7_Witness ==
    /\ pc = "returned"
    /\ Confluence(bundle)
    /\ StageMinima(bundle) = {70}
    /\ settings.min_confidence_threshold = 75
    /\ result.signalType = Null

\* C8: for every bundle that yields a signal (confluence, threshold met), the
\* confidence of the returned signal is the minimum of the confidences of
\* the confirming stages.
C8_ConfidenceIsMinimum ==
    (pc = "returned" /\ SignalDue(bundle, settings)) =>
        result.confidence \in StageMinima(bundle)

\* C9: for every bundle that yields a signal, buy or sell, the returned
\* signal is priced with entry_price # stop_loss, the configured ratio, and
\* |take_profit - entry_price| = ratio * |entry_price - stop_loss|.
C9_PricingInvariant ==
    (pc = "returned" /\ SignalDue(bundle, settings)) =>
        /\ IsSignal(result)
        /\ result.riskRewardRatio = settings.risk_reward_ratio
        /\ result.entryPrice # result.stopLoss
        /\ Abs(result.takeProfit - result.entryPrice)
              = result.riskRewardRatio * Abs(result.entryPrice - result.stopLoss)

\* The stop levels of the 3m/1m structures on the losing side of the entry.
StopLevels(b, entry) ==
    { s.priceLevel : s \in { x \in Range(b.tf3m.structures) \cup Range(b.tf1m.structures) :
          /\ x.type \in {"order_block", "liquidity"}
          /\ x.direction = Bias(b)
          /\ IF Bias(b) = "bullish" THEN x.priceLevel < entry ELSE x.priceLevel > entry } }

\* C10: a buy signal has stop_loss at the nearest bullish order_block or
\* liquidity level strictly below the entry (below the entry by the fallback
\* offset when there is none), so stop_loss < entry_price < take_profit; a
\* sell signal mirrors it, take_profit < entry_price < stop_loss.
C10_StopPlacement ==
    (pc = "returned" /\ SignalDue(bundle, settings)) =>
        /\ IsSignal(result)
        /\ result.signalType = (IF Bias(bundle) = "bullish" THEN "buy" ELSE "sell")
        /\ LET levels == StopLevels(bundle, result.entryPrice)
           IN IF result.signalType = "buy"
              THEN /\ result.stopLoss < result.entryPrice
                   /\ result.entryPrice < result.takeProfit
                   /\ levels # {} => result.stopLoss = SetMax(levels)
              ELSE /\ result.takeProfit < result.entryPrice
                   /\ result.entryPrice < result.stopLoss
                   /\ levels # {} => result.stopLoss = SetMin(levels)

\* C15: evaluations of generateSignal on the same analyses and settings end
\* alike: whenever a later evaluation has ended, every earlier one ended
\* the same way with the same result.
C15_Deterministic ==
    (pc \in {"returned", "threw"}) =>
        \A k \in 1..Len(previous) :
            /\ previous[k].outcome = pc
            /\ previous[k].result = result

(***************************************************************************)
(* Capture cycles: C11 - C14                                               *)
(***************************************************************************)
Cycles == 1..Len(cycles)

\* The indexes of the timeframes whose analysis cycle i has received.
Analysed(i) ==
    {k \in 1..Len(Timeframes) :
        \/ k < cycles[i].timeframe
        \/ k = cycles[i].timeframe /\ cycles[i].pc \in {"storing", "completing", "done"}}

RowsOf(captureId) == {r \in market_structures : r.chart_capture_id = captureId}

\* The object of the insert request cycle i is waiting for.
InFlight(i) == StructureRow(i, CaptureIdOf(i), Head(cycles[i].pending))

\* C11: the bundle of a capture is formed (the capture completes) only
\* when all four timeframes have an analysis; while one is missing the
\* attempt fails, and after a failed attempt the missing analysis can still
\* be supplied for the same capture, after which the retry succeeds.
C11_RetryAfterIncompleteBundle ==
    \A i \in Cycles :
        /\ cycles[i].pc = "done" => Analysed(i) = 1..Len(Timeframes)
        /\ cycles[i].pc = "failed" =>
              ENABLED (\E text \in ChartTexts(Timeframes[cycles[i].timeframe]) :
                          AnalyzeChartReturn(i, text))

\* C13: once the analyzeChart call of a cycle has failed for a timeframe,
\* the capture of that cycle is not marked completed, no signal exists and
\* the decision engine has not run, no structure is stored for the capture
\* and none was extracted for the failed timeframe or a later one; the
\* cycle takes no further step.
C13_VisionFailureStalls ==
    /\ [](\A i \in Cycles :
            cycles[i].threw # "none" =>
               /\ cycles[i].pc = "failed"
               /\ chart_captures[cycles[i].captureId] = "analyzing"
               /\ RowsOf(cycles[i].captureId) = {}
               /\ \A n \in 1..Len(cycles[i].structures) :
                     cycles[i].structures[n].timeframe < cycles[i].timeframe
               /\ \A id \in SignalIds : trading_signals[id] = NoRow
               /\ pc = "idle")
    /\ [][\A i \in Cycles :
            cycles[i].threw # "none" =>
               /\ cycles'[i] = cycles[i]
               /\ RowsOf(cycles[i].captureId)' = RowsOf(cycles[i].captureId)]_vars

\* The 3m call of a cycle has failed after structures of its earlier
\* timeframes were extracted, and another cycle has completed.
C13_Witness ==
    \E i, j \in Cycles :
        /\ cycles[i].threw = "3m"
        /\ cycles[i].structures # <<>>
        /\ cycles[j].pc = "done"
        /\ chart_captures[cycles[i].captureId] = "analyzing"

\* C14: every insert a cycle sends names its own capture id, and every
\* step of a cycle leaves the other cycles as they are, changes no
\* chart_captures row but the one of its own capture id and stores no
\* structure under another capture id; stored structures stay.
C14_CyclesIsolated ==
    /\ [](\A i \in Cycles :
            cycles[i].pc = "storing" =>
               /\ InFlight(i).capture_id = cycles[i].captureId
               /\ InFlight(i).capture_id # NoCaptureId)
    /\ [][\A i \in 1..Len(cycles') :
            (i > Len(cycles) \/ cycles'[i] # cycles[i]) =>
               /\ \A j \in Cycles : j # i => cycles'[j] = cycles[j]
               /\ \A id \in CaptureIds :
                     chart_captures'[id] # chart_captures[id] => id = cycles'[i].captureId
               /\ market_structures \subseteq market_structures'
               /\ \A r \in market_structures' \ market_structures :
                     r.chart_capture_id = cycles'[i].captureId]_vars

\* Two cycles overlap: the cycle started second owns the first capture row
\* and has completed while the other, with structures extracted too, is
\* still sending its inserts.
C14_Witness ==
    \E i, j \in Cycles :
        /\ i < j
        /\ cycles[j].captureId < cycles[i].captureId
        /\ cycles[j].pc = "done"
        /\ chart_captures[cycles[j].captureId] = "completed"
        /\ cycles[i].pc = "storing"
        /\ chart_captures[cycles[i].captureId] = "analyzing"
        /\ cycles[i].structures # <<>>
        /\ cycles[j].structures # <<>>

(***************************************************************************)
(* Structure extraction: C16 - C20                                         *)
(***************************************************************************)
Mentions(line, word) == includes(toLowerCase(line), word)

\* The rule categories whose keywords a line contains.
Categories(line) ==
    {t \in {"choch", "bos", "order_block", "liquidity", "poi", "fib_50"} :
        \/ t = "choch" /\ (Mentions(line, S_choch) \/ Mentions(line, S_change_of_character))
        \/ t = "bos" /\ (Mentions(line, S_bos) \/ Mentions(line, S_break_of_structure))
        \/ t = "order_block" /\ Mentions(line, S_order_block)
        \/ t = "liquidity" /\ (Mentions(line, S_liquidity) \/ Mentions(line, S_pool))
        \/ t = "poi" /\ (Mentions(line, S_poi) \/ Mentions(line, S_point_of_interest))
        \/ t = "fib_50" /\ Mentions(line, S_fib)
              /\ (Mentions(line, S_50) \/ Mentions(line, S_0_5))}

HasNumber(line) == \E k \in 1..Len(line) : IsDigit(line[k])

\* The first number on a line that has one: it starts at the first digit
\* and runs over digits and single separators ("," or ".") between digits;
\* the "," are dropped and the rest is read as a decimal, in hundredths.
FirstNumber(line) ==
    LET p == SetMin({k \in 1..Len(line) : IsDigit(line[k])})
        q == SetMax({e \in p..Len(line) :
                 /\ IsDigit(line[e])
                 /\ \A k \in p..e : IsDigit(line[k]) \/ line[k] \in {",", "."}
                 /\ \A k \in p..(e - 1) : ~(~IsDigit(line[k]) /\ ~IsDigit(line[k + 1]))})
        token == SelectSeq(SubSeq(line, p, q), LAMBDA c : c # ",")
        dots == {k \in 1..Len(token) : token[k] = "."}
        dot == IF dots = {} THEN Len(token) + 1 ELSE SetMin(dots)
        after == SubSeq(token, dot + 1, Len(token))
        stops == {k \in 1..Len(after) : after[k] = "."}
        decimals == SubSeq(after, 1, IF stops = {} THEN Len(after) ELSE SetMin(stops) - 1)
        frac == SubSeq(decimals \o <<"0", "0">>, 1, 2)
    IN DigitsValue(SubSeq(token, 1, dot - 1)) * 100 + DigitsValue(frac)

TextLines == 1..Len(analysisText)
OfType(type) == SelectSeq(extracted.structures, LAMBDA s : s.type = type)

\* C16: for a text none of whose lines contains a recognized keyword,
\* extraction returns no structure, whatever numbers the text contains.
C16_NoKeywordNoStructure ==
    (extracted.returned /\ \A k \in TextLines : Categories(analysisText[k]) = {})
        => extracted.structures = <<>>

\* Extraction has returned nothing for a text without keywords that holds a number.
C16_Witness ==
    /\ extracted.returned
    /\ \A k \in TextLines : Categories(analysisText[k]) = {}
    /\ \E k \in TextLines : HasNumber(analysisText[k])
    /\ extracted.structures = <<>>

\* C17: for a text (of one line, so that the text is the line the rule
\* reads) that contains "bos" in any letter case, a number and "bullish",
\* extraction returns exactly one bos structure, bullish, confidence 0.85.
C17_BosBullish ==
    (/\ extracted.returned
     /\ Len(analysisText) = 1
     /\ Mentions(analysisText[1], S_bos)
     /\ HasNumber(analysisText[1])
     /\ Mentions(analysisText[1], S_bullish))
        => /\ Len(OfType("bos")) = 1
           /\ OfType("bos")[1].direction = "bullish"
           /\ OfType("bos")[1].confidence = 85

\* C18: every returned structure comes from a line that matches its
\* category and holds a number, and its price level is the first number of
\* that line; lines that match a category but hold no number add nothing.
C18_PriceFromSameLine ==
    extracted.returned =>
        /\ \A n \in 1..Len(extracted.structures) :
              \E k \in TextLines :
                 /\ extracted.structures[n].type \in Categories(analysisText[k])
                 /\ HasNumber(analysisText[k])
                 /\ extracted.structures[n].priceLevel = FirstNumber(analysisText[k])
        /\ \A t \in {"choch", "bos", "order_block", "liquidity", "poi", "fib_50"} :
              Len(OfType(t)) <= Cardinality({k \in TextLines :
                  t \in Categories(analysisText[k]) /\ HasNumber(analysisText[k])})

\* Extraction has returned structures for a text with a matched line without
\* a number and a matched line whose first number is written with "$".
C18_Witness ==
    /\ extracted.returned
    /\ \E k \in TextLines :
          Categories(analysisText[k]) # {} /\ ~HasNumber(analysisText[k])
    /\ \E k \in TextLines :
          /\ Categories(analysisText[k]) # {}
          /\ Mentions(analysisText[k], <<"$">>)
          /\ \E n \in 1..Len(extracted.structures) :
                extracted.structures[n].priceLevel = FirstNumber(analysisText[k])

\* C19: the number of returned structures is the sum over the lines that
\* hold a number of the categories the line matches, and a one-line text
\* with a number that mentions "order block" and "liquidity" gives exactly
\* one order_block and one liquidity structure.
C19_OnePerCategoryPerLine ==
    extracted.returned =>
        /\ Len(extracted.structures)
              = Cardinality({<<k, t>> \in TextLines \X {"choch", "bos", "order_block",
                                                       "liquidity", "poi", "fib_50"} :
                    HasNumber(analysisText[k]) /\ t \in Categories(analysisText[k])})
        /\ (/\ Len(analysisText) = 1
            /\ HasNumber(analysisText[1])
            /\ Mentions(analysisText[1], S_order_block)
            /\ Mentions(analysisText[1], S_liquidity))
              => /\ Len(extracted.structures) = 2
                 /\ Len(OfType("order_block")) = 1
                 /\ Len(OfType("liquidity")) = 1

\* The confidence constant of each kind of structure.
KindConfidence(type) ==
    CASE type = "choch" -> 80
      [] type = "bos" -> 85
      [] type = "order_block" -> 75
      [] type = "liquidity" -> 70
      [] type = "poi" -> 80
      [] type = "fib_50" -> 75

\* C20: every returned structure carries the confidence constant of its
\* kind: choch 0.80, bos 0.85, order_block 0.75, liquidity 0.70, poi 0.80,
\* fib_50 0.75.
C20_FixedConfidence ==
    extracted.returned =>
        \A n \in 1..Len(extracted.structures) :
            extracted.structures[n].confidence
                = KindConfidence(extracted.structures[n].type)

\* Extraction has returned structures of all six kinds.
C20_Witness ==
    /\ extracted.returned
    /\ \A t \in {"choch", "bos", "order_block", "liquidity", "poi", "fib_50"} :
          OfType(t) # <<>>

(***************************************************************************)
(* Structure extraction: C21                                               *)
(***************************************************************************)
\* The direction the keywords of a line stand for: bullish for "bullish",
\* "demand" or "above", bearish for "bearish", "supply" or "below", neutral
\* otherwise.
KeywordDirection(line) ==
    IF Mentions(line, S_bullish) \/ Mentions(line, S_demand) \/ Mentions(line, S_above)
    THEN "bullish"
    ELSE IF Mentions(line, S_bearish) \/ Mentions(line, S_supply) \/ Mentions(line, S_below)
         THEN "bearish"
         ELSE "neutral"

\* C21: every structure extracted from a line (a text of one line) has the
\* direction its direction keywords stand for, whatever rule emitted it.
C21_DirectionFromKeywords ==
    (extracted.returned /\ Len(analysisText) = 1) =>
        \A n \in 1..Len(extracted.structures) :
            extracted.structures[n].direction = KeywordDirection(analysisText[1])

(***************************************************************************)
(* Persisted signals: C22                                                  *)
(***************************************************************************)
\* C22: a trading signal is created with status 'pending', and every step
\* that changes a stored signal changes only alert_sent, to true:
\* signal_type, entry_price, stop_loss, take_profit, risk_reward_ratio,
\* confidence_score and status stay as they are and the row stays.
C22_OnlyAlertSentChanges ==
    [][\A id \in SignalIds :
          /\ (trading_signals[id] = NoRow /\ trading_signals'[id] # NoRow)
                => trading_signals'[id].status = "pending"
          /\ trading_signals[id] # NoRow =>
                /\ trading_signals'[id] # NoRow
                /\ \A c \in DOMAIN trading_signals[id] \ {"alert_sent"} :
                      trading_signals'[id][c] = trading_signals[id][c]
                /\ trading_signals'[id].alert_sent # trading_signals[id].alert_sent
                      => trading_signals'[id].alert_sent]_vars

\* The alert update of a signal has been applied and turned alert_sent to
\* true; the signal is still pending with the values it was inserted with.
C22_Witness ==
    \E i \in 1..Len(calls) : \E v \in SignalValues :
        /\ calls[i].update = "applied"
        /\ calls[i].transition
        /\ trading_signals[calls[i].id]
              = [NewRow(calls[i].id, v) EXCEPT !.alert_sent = TRUE]

(***************************************************************************)
(* Capture cycles: C23 - C25                                               *)
(***************************************************************************)
Owner(id) == {i \in Cycles : cycles[i].captureId = id}

\* C23: a chart_captures row is created with analysis_status 'analyzing';
\* it is 'completed' only when its cycle has gone through the analysis and
\* the inserts of all four timeframes, taken one after the other in the
\* order 4h, 15m, 3m, 1m, each timeframe left only when its last insert is
\* answered; a cycle that found no API key, or in which a step threw, leaves
\* its capture (if any) 'analyzing'.
C23_CompletedOnlyAfterAllTimeframes ==
    /\ [](/\ \A id \in CaptureIds :
               chart_captures[id] = "completed" =>
                  \E i \in Owner(id) :
                     /\ cycles[i].pc = "done"
                     /\ Analysed(i) = 1..Len(Timeframes)
                     /\ cycles[i].pending = <<>>
          /\ \A i \in Cycles :
               cycles[i].pc \in {"aborted", "no key", "failed"} =>
                  /\ cycles[i].captureId # NoCaptureId
                        => chart_captures[cycles[i].captureId] = "analyzing"
                  /\ \A id \in CaptureIds :
                        chart_captures[id] = "completed" => i \notin Owner(id))
    /\ [][/\ \A id \in CaptureIds :
               (chart_captures[id] = NoCapture /\ chart_captures'[id] # NoCapture)
                  => chart_captures'[id] = "analyzing"
          /\ \A i \in Cycles :
               \/ cycles'[i].timeframe = cycles[i].timeframe
               \/ /\ cycles'[i].timeframe = cycles[i].timeframe + 1
                  /\ Len(cycles[i].pending) <= 1
                  /\ cycles[i].pc \in {"reading", "analyzing", "storing"}]_vars

\* A capture has been completed after structures were extracted for three
\* of its timeframes, while the capture of a cycle whose 4h call threw is
\* still 'analyzing'.
C23_Witness ==
    \E i, j \in Cycles :
        /\ cycles[i].pc = "done"
        /\ chart_captures[cycles[i].captureId] = "completed"
        /\ {cycles[i].structures[n].timeframe : n \in 1..Len(cycles[i].structures)}
              = {1, 2, 3}
        /\ cycles[j].threw = "4h"
        /\ chart_captures[cycles[j].captureId] = "analyzing"

\* C24: when a cycle has completed, market_structures holds exactly one
\* record for every structure the cycle extracted, with the capture id of
\* the cycle, the user and the timeframe, and no other record of that
\* capture.
C24_StoredEqualsExtracted ==
    \A i \in Cycles :
        cycles[i].pc = "done" =>
            /\ Cardinality(RowsOf(cycles[i].captureId)) = Len(cycles[i].structures)
            /\ \A n \in 1..Len(cycles[i].structures) :
                  \E r \in RowsOf(cycles[i].captureId) :
                     /\ r.user_id = "user"
                     /\ r.timeframe = Timeframes[cycles[i].structures[n].timeframe]
                     /\ r.structure_type = cycles[i].structures[n].structure.type
                     /\ r.direction = cycles[i].structures[n].structure.direction
                     /\ r.price_level = cycles[i].structures[n].structure.priceLevel
                     /\ r.confidence = cycles[i].structures[n].structure.confidence

\* C25: isAnalyzing is true in every state in which a cycle is in flight,
\* from the start of the upload to the end of analyzeCapture.
C25_AnalyzingWhileInFlight ==
    \A i \in Cycles :
        cycles[i].pc \in {"saving", "reading", "analyzing", "storing", "completing"}
            => isAnalyzing

(***************************************************************************)
(* Alert settings: C26                                                     *)
(***************************************************************************)
\* C26: a run of the subscription handler plays the sound only if
\* soundEnabled is true and adds a toast only if notificationsEnabled is
\* true at that moment: after toggleSound or toggleNotifications turned the
\* setting off, arriving signals play no sound, respectively add no toast.
C26_HandlerUsesCurrentSettings ==
    [][Len(calls') > Len(calls) =>
          /\ calls'[Len(calls')].sound => soundEnabled
          /\ calls'[Len(calls')].toast => notificationsEnabled]_vars

(***************************************************************************)
(* Capture session: C27, C28                                               *)
(***************************************************************************)
\* The stream in the component state has a running track.
StreamLive == \E l \in listeners : l.track = stream

\* C27: with auto-capture enabled the interval set by startCapture keeps
\* running while capturing is active, and every run of its callback that
\* finds the stream live takes a frame and starts its analysis.
C27_TimerTakesFrames ==
    /\ (isCapturing /\ intervalRef # NoTimer) => \E t \in timers : t.id = intervalRef
    /\ \A k \in 1..Len(ticks) : ticks[k].live => ticks[k].frame

C29_ListMatchesFilter ==
    (loads = <<>> /\ ~loadError) => signals = Query(filter, trading_signals)

(***************************************************************************)
(* Analysis client: C30                                                    *)
(***************************************************************************)
NullSignal(signal) ==
    /\ signal.signalType = Null
    /\ signal.entryPrice = Null
    /\ signal.stopLoss = Null
    /\ signal.takeProfit = Null
    /\ signal.riskRewardRatio = Null
    /\ signal.confidence = 0
    /\ \A t \in DOMAIN signal.reasoning : signal.reasoning[t] = ""

AnalysisReturned(t) == analysis[t] \notin {NoAnalysis, AnalysisThrew}

====
